---- MODULE Spec2Model ----
(***************************************************************************)
(* The outfit composition engine of App.tsx: the history of outfit layers, *)
(* the current position, the active pose, the busy flag, the wardrobe and  *)
(* the asynchronous handlers that change them.                             *)
(*                                                                         *)
(* A handler runs atomically up to its next await.  What it read from the  *)
(* render it was created in (its closure) is stored in the record of the   *)
(* outstanding operation; functional state updates (prev => ...) read the  *)
(* state at the time they are applied.                                     *)
(*                                                                         *)
(* Images are numbers: 0 is null, s is the model image of the s-th         *)
(* session, the images above MaxSessions are those returned by the         *)
(* generation calls.  A layer object is identified by the image it was     *)
(* created with (oid); its poseImages object lives in the heap             *)
(* `poseImages`, so that the in-place mutation of handlePoseSelect is seen *)
(* through every array that holds the layer.                               *)
(***************************************************************************)
EXTENDS Integers, Sequences, FiniteSets, TLC

\* ---- bounds of the model ----
MaxSessions == 2     \* models finalized (StartScreen completions)
MaxCalls == 2        \* generation calls issued in one run
MaxPoseCalls == 3    \* generation calls issued in one run of the pose scenarios
MaxOps == 2          \* handlers outstanding at the same time
MaxCustom == 1       \* custom garments uploaded
MaxSaved == 1        \* saved outfits kept
MaxPose == 2         \* poses 0..MaxPose of POSE_INSTRUCTIONS are selectable
MaxPick == 2         \* garments 1..MaxPick of the catalogue are clicked

\* ---- program data ----
NoImage == 0
NoGarment == 0
DefaultPose == 0
defaultWardrobe == <<1, 2, 3>>
Poses == 0..MaxPose
MaxImage == MaxSessions + MaxPoseCalls
CustomId(n) == Len(defaultWardrobe) + n

\* The saved outfits found in localStorage at startup, written by earlier runs: one of
\* two catalogue garments, and one whose first garment was a custom upload of that run.
OldCustomId == CustomId(MaxCustom + 1)
StoredOutfits ==
    <<[id |-> -1, garmentIds |-> <<1, 2>>], [id |-> -2, garmentIds |-> <<OldCustomId, 1>>]>>
MaxStored == Len(StoredOutfits)

\* ---- JSON values and texts (the saved outfits item of localStorage) ----
\* A value of the savedOutfits state: an array of outfits, or something that is not an
\* array (what JSON.parse returns for a text such as {"a":1}).
JSArray(items) == [isArray |-> TRUE, items |-> items]
NotAnArray == [isArray |-> FALSE, items |-> <<>>]

\* A text is none (getItem returns null), unparseable, or the text of a value; the text
\* of an array lists each outfit as the pair of its id and its garment ids.
NoItem == [t |-> "null", v |-> <<>>]
Unparseable == [t |-> "garbage", v |-> <<>>]

JSONstringify_NoIds(x) ==
    IF x.isArray
    THEN [t |-> "array", v |-> [k \in 1..Len(x.items) |-> <<x.items[k].id, <<>>>>]]
    ELSE [t |-> "object", v |-> <<>>]

\* JSON.stringify(savedOutfits)
JSONstringify(x) ==
    IF x.isArray
    THEN [t |-> "array",
          v |-> [k \in 1..Len(x.items) |-> <<x.items[k].id, x.items[k].garmentIds>>]]
    ELSE [t |-> "object", v |-> <<>>]

\* JSON.parse(text): ok is FALSE when it throws
JSONparse(text) ==
    IF text.t = "array"
    THEN [ok |-> TRUE,
          value |-> JSArray([k \in 1..Len(text.v) |->
                                [id |-> text.v[k][1], garmentIds |-> text.v[k][2]]])]
    ELSE IF text.t = "object" THEN [ok |-> TRUE, value |-> NotAnArray]
    ELSE [ok |-> FALSE, value |-> NotAnArray]

\* the load effect: if (storedOutfits) setSavedOutfits(JSON.parse(storedOutfits)),
\* a throw of JSON.parse is caught and logged; the state was created as []
LoadAll(text) ==
    IF text.t = "null" THEN JSArray(<<>>)
    ELSE IF JSONparse(text).ok THEN JSONparse(text).value
    ELSE JSArray(<<>>)

\* the persist effect: localStorage.setItem('savedOutfits', JSON.stringify(savedOutfits)),
\* a throw of setItem (accepted = FALSE) is caught and logged
Persist(value, accepted, item) == IF accepted THEN JSONstringify(value) ELSE item

VARIABLES
    modelImageUrl,        \* image or NoImage
    outfitHistory,        \* sequence of layers [garment, oid]
    poseImages,           \* heap: oid -> sequence of [pose, img] in insertion order
    currentOutfitIndex,   \* 0-based
    isLoading,
    error,                \* TRUE when an error message is shown
    currentPoseIndex,
    wardrobe,             \* sequence of garment ids
    savedOutfits,         \* the parsed value: an array of [id, garmentIds], or not an array
    localStorage,         \* the item 'savedOutfits' of localStorage: a JSON text or none
    ops,                  \* outstanding handlers, in order of issue
    nSessions, nCustom, nSaved,
    callsLeft,            \* generation calls the run may still issue
    crashed,              \* the component tree was unmounted by a render error
    last,                 \* the step that led to this state
    redo                  \* observer of the sequence AddGarment(G), RemoveLastGarment, AddGarment(G)

vars == <<modelImageUrl, outfitHistory, poseImages, currentOutfitIndex, isLoading,
          error, currentPoseIndex, wardrobe, savedOutfits, localStorage, ops,
          nSessions, callsLeft, nCustom, nSaved, crashed, last, redo>>

\* the image that the next generation call returns
NewImage == MaxImage - callsLeft + 1

\* ---- helpers ----
Min(a, b) == IF a < b THEN a ELSE b
Range(s) == {s[i] : i \in 1..Len(s)}
RemoveAt(s, i) == SubSeq(s, 1, i - 1) \o SubSeq(s, i + 1, Len(s))
ReplaceAt(s, i, e) == [s EXCEPT ![i] = e]

\* Array.prototype.slice(0, n)
Slice(s, n) == SubSeq(s, 1, Min(n, Len(s)))

\* obj[key] of a poseImages object: the image, or NoImage for undefined
PoseGet(cache, p) ==
    IF \E k \in 1..Len(cache) : cache[k].pose = p
    THEN LET k == CHOOSE k \in 1..Len(cache) : cache[k].pose = p IN cache[k].img
    ELSE NoImage

PoseSet_Prepend(cache, p, img) ==
    IF \E k \in 1..Len(cache) : cache[k].pose = p
    THEN [k \in 1..Len(cache) |->
            IF cache[k].pose = p THEN [pose |-> p, img |-> img] ELSE cache[k]]
    ELSE <<[pose |-> p, img |-> img]>> \o cache

\* obj[key] = img: replaces the value of an existing key in place, appends a new key
PoseSet(cache, p, img) ==
    IF \E k \in 1..Len(cache) : cache[k].pose = p
    THEN [k \in 1..Len(cache) |->
            IF cache[k].pose = p THEN [pose |-> p, img |-> img] ELSE cache[k]]
    ELSE Append(cache, [pose |-> p, img |-> img])

\* Object.values(obj)[0]
FirstValue(cache) == IF Len(cache) = 0 THEN NoImage ELSE cache[1].img

PoseKeys(cache) == {cache[k].pose : k \in 1..Len(cache)}

Layer(g, img) == [garment |-> g, oid |-> img]

\* outfitHistory[i] for a 0-based i: TRUE when it is not undefined
HasLayer(h, i) == i >= 0 /\ i < Len(h)

activeOutfitLayers == Slice(outfitHistory, currentOutfitIndex + 1)

activeGarmentIds ==
    LET f[k \in 0..Len(activeOutfitLayers)] ==
          IF k = 0 THEN <<>>
          ELSE IF activeOutfitLayers[k].garment = NoGarment THEN f[k - 1]
               ELSE Append(f[k - 1], activeOutfitLayers[k].garment)
    IN f[Len(activeOutfitLayers)]

displayImageUrl ==
    IF Len(outfitHistory) = 0 THEN modelImageUrl
    ELSE IF ~HasLayer(outfitHistory, currentOutfitIndex) THEN modelImageUrl
    ELSE LET cache == poseImages[outfitHistory[currentOutfitIndex + 1].oid] IN
         IF PoseGet(cache, currentPoseIndex) # NoImage
         THEN PoseGet(cache, currentPoseIndex)
         ELSE FirstValue(cache)

\* the garment id of outfitHistory[currentOutfitIndex + 1], NoGarment when there is none
NextGarment ==
    IF HasLayer(outfitHistory, currentOutfitIndex + 1)
    THEN outfitHistory[currentOutfitIndex + 2].garment
    ELSE NoGarment

\* The observer of the redo sequence: stage 1 right after an AddGarment(g) succeeded
\* (with the engine state it left), stage 2 when RemoveLastGarment acted next, stage 3
\* when handleGarmentSelect was called next with the same garment.  A click (the fetch
\* that precedes handleGarmentSelect) does not end the sequence; any other step does.
NoRedo == [stage |-> 0]
Observe(kind, g) ==
    IF kind = "addOk" THEN
        [stage |-> 1, g |-> g, hist |-> outfitHistory', cache |-> poseImages',
         idx |-> currentOutfitIndex', pose |-> currentPoseIndex', calls |-> callsLeft]
    ELSE IF kind = "remove" /\ redo.stage = 1 THEN [redo EXCEPT !.stage = 2]
    ELSE IF kind \in {"click", "clickFailed"} THEN redo
    ELSE IF kind \in {"addRedo", "addIssue", "addBlocked"} /\ redo.stage = 2 /\ redo.g = g
         THEN [redo EXCEPT !.stage = 3]
    ELSE NoRedo

\* the main screen is rendered (and its buttons exist) only with a model image
MainScreen == ~crashed /\ modelImageUrl # NoImage


Init ==
    /\ modelImageUrl = NoImage
    /\ outfitHistory = <<>>
    /\ poseImages = [i \in 1..MaxImage |-> <<>>]
    /\ currentOutfitIndex = 0
    /\ isLoading = FALSE
    /\ error = FALSE
    /\ currentPoseIndex = 0
    /\ wardrobe = defaultWardrobe
    /\ savedOutfits = JSArray(StoredOutfits)
    /\ localStorage = JSONstringify(JSArray(StoredOutfits))
    /\ ops = <<>>
    /\ callsLeft = MaxCalls
    /\ nSessions = 0 /\ nCustom = 0 /\ nSaved = 0
    /\ crashed = FALSE
    /\ last = "init"
    /\ redo = NoRedo

\* ---- handleModelFinalized / handleStartOver ----
ModelFinalized ==
    /\ ~crashed
    /\ modelImageUrl = NoImage
    /\ nSessions < MaxSessions
    /\ LET url == nSessions + 1 IN
        /\ modelImageUrl' = url
        /\ outfitHistory' = <<Layer(NoGarment, url)>>
        /\ poseImages' = [poseImages EXCEPT ![url] = <<[pose |-> DefaultPose, img |-> url]>>]
        /\ currentOutfitIndex' = 0
        /\ nSessions' = url
    /\ last' = "finalize"
    /\ redo' = Observe("finalize", NoGarment)
    /\ UNCHANGED <<isLoading, error, currentPoseIndex, wardrobe, savedOutfits, localStorage, ops,
                   callsLeft, nCustom, nSaved, crashed>>

StartOver ==
    /\ MainScreen
    /\ modelImageUrl' = NoImage
    /\ outfitHistory' = <<>>
    /\ currentOutfitIndex' = 0
    /\ isLoading' = FALSE
    /\ error' = FALSE
    /\ currentPoseIndex' = 0
    /\ wardrobe' = defaultWardrobe
    /\ last' = "startOver"
    /\ redo' = Observe("startOver", NoGarment)
    /\ UNCHANGED <<poseImages, savedOutfits, localStorage, ops, nSessions, callsLeft, nCustom, nSaved, crashed>>

\* ---- handleGarmentSelect (App.tsx) ----
\* What a handler created in the current render sees.
Closure ==
    [display |-> displayImageUrl, loading |-> isLoading,
     idx |-> currentOutfitIndex, next |-> NextGarment]

AddOp(g, c) ==
    [kind |-> "add", garment |-> g, idx |-> c.idx, base |-> c.display,
     img |-> NewImage,
     h0 |-> outfitHistory, i0 |-> currentOutfitIndex, m0 |-> modelImageUrl]

\* the guard of handleGarmentSelect, on the values of its closure
GarmentSelectBlocked(c) == c.display = NoImage \/ c.loading

\* nextLayer && nextLayer.garment?.id === garmentInfo.id
IsRedoHit(g, c) == c.next # NoGarment /\ c.next = g

\* The synchronous part of handleGarmentSelect(file, g) called with closure c;
\* rest is the list of the other outstanding handlers.
HandleGarmentSelect(g, c, rest) ==
    IF GarmentSelectBlocked(c) THEN
        /\ ops' = rest
        /\ last' = "addBlocked"
        /\ redo' = Observe("addBlocked", g)
        /\ UNCHANGED <<outfitHistory, poseImages, currentOutfitIndex, isLoading, error,
                       currentPoseIndex, callsLeft>>
    ELSE IF IsRedoHit(g, c) THEN
        /\ currentOutfitIndex' = currentOutfitIndex + 1
        /\ currentPoseIndex' = 0
        /\ ops' = rest
        /\ last' = "addRedo"
        /\ redo' = Observe("addRedo", g)
        /\ UNCHANGED <<outfitHistory, poseImages, isLoading, error, callsLeft>>
    ELSE
        /\ callsLeft > 0
        /\ error' = FALSE
        /\ isLoading' = TRUE
        /\ callsLeft' = callsLeft - 1
        /\ ops' = Append(rest, AddOp(g, c))
        /\ last' = "addIssue"
        /\ redo' = Observe("addIssue", g)
        /\ UNCHANGED <<outfitHistory, poseImages, currentOutfitIndex, currentPoseIndex>>

\* WardrobePanel.handleGarmentClick up to its await of urlToFile
GarmentClick(g) ==
    /\ MainScreen
    /\ g \in Range(wardrobe)
    /\ g <= MaxPick \/ g > Len(defaultWardrobe)
    /\ ~(isLoading \/ g \in Range(activeGarmentIds))
    /\ Len(ops) < MaxOps
    /\ ops' = Append(ops, [kind |-> "click", garment |-> g, c |-> Closure])
    /\ last' = "click"
    /\ redo' = Observe("click", NoGarment)
    /\ UNCHANGED <<modelImageUrl, outfitHistory, poseImages, currentOutfitIndex, isLoading,
                   error, currentPoseIndex, wardrobe, savedOutfits, localStorage,
                   nSessions, callsLeft, nCustom, nSaved, crashed>>

\* urlToFile resolved: onGarmentSelect of the render of the click is called
ClickFetched(i) ==
    /\ ~crashed
    /\ i \in 1..Len(ops) /\ ops[i].kind = "click"
    /\ HandleGarmentSelect(ops[i].garment, ops[i].c, RemoveAt(ops, i))
    /\ UNCHANGED <<modelImageUrl, wardrobe, savedOutfits, localStorage, nSessions, nCustom, nSaved, crashed>>

\* urlToFile rejected: only the panel's own message is set
ClickFetchFailed(i) ==
    /\ ~crashed
    /\ i \in 1..Len(ops) /\ ops[i].kind = "click"
    /\ ops' = RemoveAt(ops, i)
    /\ last' = "clickFailed"
    /\ redo' = Observe("clickFailed", NoGarment)
    /\ UNCHANGED <<modelImageUrl, outfitHistory, poseImages, currentOutfitIndex, isLoading,
                   error, currentPoseIndex, wardrobe, savedOutfits, localStorage,
                   nSessions, callsLeft, nCustom, nSaved, crashed>>

\* WardrobePanel.handleFileChange: a new custom garment, onGarmentSelect called at once
Upload ==
    /\ MainScreen
    /\ ~isLoading
    /\ nCustom < MaxCustom
    /\ Len(ops) < MaxOps
    /\ nCustom' = nCustom + 1
    /\ HandleGarmentSelect(CustomId(nCustom + 1), Closure, ops)
    /\ UNCHANGED <<modelImageUrl, wardrobe, savedOutfits, localStorage, nSessions, nSaved, crashed>>

\* setOutfitHistory(prev => [...prev.slice(0, currentOutfitIndex + 1), newLayer])
AppendLayer(prev, idx, layer) == Append(Slice(prev, idx + 1), layer)

\* setWardrobe(prev => prev.find(id) ? prev : [...prev, garmentInfo])
Register(w, g) == IF g \in Range(w) THEN w ELSE Append(w, g)

\* generateVirtualTryOnImage resolved
AddSucceeded(i) ==
    /\ ~crashed
    /\ i \in 1..Len(ops) /\ ops[i].kind = "add"
    /\ LET o == ops[i] IN
        /\ outfitHistory' = AppendLayer(outfitHistory, o.idx, Layer(o.garment, o.img))
        /\ poseImages' = [poseImages EXCEPT ![o.img] = <<[pose |-> DefaultPose, img |-> o.img]>>]
        /\ currentOutfitIndex' = currentOutfitIndex + 1
        /\ currentPoseIndex' = 0
        /\ wardrobe' = Register(wardrobe, o.garment)
        /\ isLoading' = FALSE
        /\ ops' = RemoveAt(ops, i)
        /\ last' = "addOk"
        /\ redo' = Observe("addOk", o.garment)
    /\ UNCHANGED <<modelImageUrl, error, savedOutfits, localStorage, nSessions, callsLeft, nCustom, nSaved, crashed>>

\* generateVirtualTryOnImage rejected
AddFailed(i) ==
    /\ ~crashed
    /\ i \in 1..Len(ops) /\ ops[i].kind = "add"
    /\ error' = TRUE
    /\ isLoading' = FALSE
    /\ ops' = RemoveAt(ops, i)
    /\ last' = "addFail"
    /\ redo' = Observe("addFail", NoGarment)
    /\ UNCHANGED <<modelImageUrl, outfitHistory, poseImages, currentOutfitIndex,
                   currentPoseIndex, wardrobe, savedOutfits, localStorage,
                   nSessions, callsLeft, nCustom, nSaved, crashed>>

\* ---- handleRemoveLastGarment ----
CanRemove_Always == TRUE

\* if (currentOutfitIndex > 0)
CanRemove == currentOutfitIndex > 0

RemoveLastGarment ==
    /\ MainScreen
    /\ IF CanRemove
       THEN /\ currentOutfitIndex' = currentOutfitIndex - 1
            /\ currentPoseIndex' = 0
            /\ last' = "remove"
            /\ redo' = Observe("remove", NoGarment)
       ELSE /\ UNCHANGED <<currentOutfitIndex, currentPoseIndex>>
            /\ UNCHANGED <<last, redo>>
    /\ UNCHANGED <<modelImageUrl, outfitHistory, poseImages, isLoading, error, wardrobe,
                   savedOutfits, localStorage, ops, nSessions, callsLeft, nCustom, nSaved, crashed>>

\* ---- handlePoseSelect ----
baseImageForPoseChange_Displayed == displayImageUrl

\* Object.values(currentLayer.poseImages)[0]
baseImageForPoseChange == FirstValue(poseImages[outfitHistory[currentOutfitIndex + 1].oid])

PoseOp(p) ==
    [kind |-> "pose", pose |-> p, prev |-> currentPoseIndex, idx |-> currentOutfitIndex,
     base |-> baseImageForPoseChange,
     img |-> NewImage,
     oid |-> outfitHistory[currentOutfitIndex + 1].oid, shown |-> displayImageUrl,
     h0 |-> outfitHistory, c0 |-> poseImages[outfitHistory[currentOutfitIndex + 1].oid]]

\* isLoading || outfitHistory.length === 0 || newIndex === currentPoseIndex
PoseSelectBlocked(p) == isLoading \/ Len(outfitHistory) = 0 \/ p = currentPoseIndex

IsPoseHit_Never(p) == FALSE

\* currentLayer.poseImages[poseInstruction] is set
IsPoseHit(p) == PoseGet(poseImages[outfitHistory[currentOutfitIndex + 1].oid], p) # NoImage

PoseSelect(p) ==
    /\ MainScreen
    /\ IF PoseSelectBlocked(p) \/ ~HasLayer(outfitHistory, currentOutfitIndex) THEN
            \* the early return, or the TypeError of reading poseImages of undefined:
            \* the promise is rejected and no state is set
            /\ UNCHANGED <<last, redo>>
            /\ UNCHANGED <<isLoading, error, currentPoseIndex, ops, callsLeft>>
       ELSE IF IsPoseHit(p) THEN
            /\ currentPoseIndex' = p
            /\ last' = "poseHit"
            /\ redo' = Observe("poseHit", NoGarment)
            /\ UNCHANGED <<isLoading, error, ops, callsLeft>>
       ELSE
            /\ callsLeft > 0
            /\ Len(ops) < MaxOps
            /\ error' = FALSE
            /\ isLoading' = TRUE
            /\ currentPoseIndex' = p
            /\ callsLeft' = callsLeft - 1
            /\ ops' = Append(ops, PoseOp(p))
            /\ last' = "poseIssue"
            /\ redo' = Observe("poseIssue", NoGarment)
    /\ UNCHANGED <<modelImageUrl, outfitHistory, poseImages, currentOutfitIndex, wardrobe,
                   savedOutfits, localStorage, nSessions, nCustom, nSaved, crashed>>

\* generatePoseVariation resolved: the updater mutates prevHistory[currentOutfitIndex]
PoseSucceeded(i) ==
    /\ ~crashed
    /\ i \in 1..Len(ops) /\ ops[i].kind = "pose"
    /\ LET o == ops[i] IN
        IF HasLayer(outfitHistory, o.idx) THEN
            /\ poseImages' = [poseImages EXCEPT ![outfitHistory[o.idx + 1].oid] =
                                 PoseSet(@, o.pose, o.img)]
            /\ isLoading' = FALSE
            /\ last' = "poseOk"
            /\ redo' = Observe("poseOk", NoGarment)
            /\ UNCHANGED crashed
        ELSE
            \* updatedLayer is undefined: the updater throws while rendering and,
            \* without an error boundary, the tree is unmounted
            /\ crashed' = TRUE
            /\ isLoading' = FALSE
            /\ last' = "poseCrash"
            /\ redo' = Observe("poseCrash", NoGarment)
            /\ UNCHANGED poseImages
    /\ ops' = RemoveAt(ops, i)
    /\ UNCHANGED <<modelImageUrl, outfitHistory, currentOutfitIndex, error, currentPoseIndex,
                   wardrobe, savedOutfits, localStorage, nSessions, callsLeft, nCustom, nSaved>>

\* generatePoseVariation rejected
PoseFailed(i) ==
    /\ ~crashed
    /\ i \in 1..Len(ops) /\ ops[i].kind = "pose"
    /\ error' = TRUE
    /\ currentPoseIndex' = ops[i].prev
    /\ isLoading' = FALSE
    /\ ops' = RemoveAt(ops, i)
    /\ last' = "poseFail"
    /\ redo' = Observe("poseFail", NoGarment)
    /\ UNCHANGED <<modelImageUrl, outfitHistory, poseImages, currentOutfitIndex, wardrobe,
                   savedOutfits, localStorage, nSessions, callsLeft, nCustom, nSaved, crashed>>

\* ---- handleSaveOutfit ----
\* activeOutfitLayers.length <= 1 || !displayImageUrl
SaveBlocked == Len(activeOutfitLayers) <= 1 \/ displayImageUrl = NoImage

newSavedOutfit_WholeHistory ==
    [id |-> nSaved + 1,
     garmentIds |-> SelectSeq([k \in 1..Len(outfitHistory) |-> outfitHistory[k].garment],
                              LAMBDA g : g # NoGarment)]

\* { id: `outfit-${Date.now()}`, name, garmentIds: activeGarmentIds, previewUrl }
newSavedOutfit == [id |-> nSaved + 1, garmentIds |-> activeGarmentIds]

SaveOutfit(accepted) ==
    /\ MainScreen
    /\ IF SaveBlocked THEN
            /\ UNCHANGED <<last, redo>>
            /\ UNCHANGED <<savedOutfits, localStorage, nSaved, crashed>>
       ELSE IF ~savedOutfits.isArray THEN
            \* [newSavedOutfit, ...prev] throws in the updater while rendering
            /\ crashed' = TRUE
            /\ last' = "saveCrash"
            /\ redo' = Observe("saveCrash", NoGarment)
            /\ UNCHANGED <<savedOutfits, localStorage, nSaved>>
       ELSE
            /\ nSaved < MaxSaved
            /\ nSaved' = nSaved + 1
            /\ savedOutfits' = JSArray(<<newSavedOutfit>> \o savedOutfits.items)
            /\ localStorage' = Persist(savedOutfits', accepted, localStorage)
            /\ last' = "save"
            /\ redo' = Observe("save", NoGarment)
            /\ UNCHANGED crashed
    /\ UNCHANGED <<modelImageUrl, outfitHistory, poseImages, currentOutfitIndex, isLoading,
                   error, currentPoseIndex, wardrobe, ops, nSessions, callsLeft, nCustom>>

\* ---- handleDeleteSavedOutfit (the button is disabled while isLoading) ----
DeleteSavedOutfit(id, accepted) ==
    /\ MainScreen
    /\ ~isLoading
    /\ savedOutfits.isArray
    /\ \E k \in 1..Len(savedOutfits.items) : savedOutfits.items[k].id = id
    /\ savedOutfits' = JSArray(SelectSeq(savedOutfits.items, LAMBDA o : o.id # id))
    /\ localStorage' = Persist(savedOutfits', accepted, localStorage)
    /\ last' = "delete"
    /\ redo' = Observe("delete", NoGarment)
    /\ UNCHANGED <<modelImageUrl, outfitHistory, poseImages, currentOutfitIndex, isLoading,
                   error, currentPoseIndex, wardrobe, ops, nSessions, callsLeft, nCustom,
                   nSaved, crashed>>

\* ---- handleApplySavedOutfit / applyGarmentSequence ----
\* wardrobe.find(g => g.id === garmentId) over the ids from position j on: the position
\* of the first id the wardrobe w holds, Len(ids) + 1 when there is none
NextResolvable_NoSkip(ids, j, w) == IF j > Len(ids) THEN Len(ids) + 1 ELSE j

RECURSIVE NextResolvable(_, _, _)
NextResolvable(ids, j, w) ==
    IF j > Len(ids) THEN Len(ids) + 1
    ELSE IF ids[j] \in Range(w) THEN j
    ELSE NextResolvable(ids, j + 1, w)

ChainBase_Keep(baseImage, newImageUrl) == baseImage

\* baseImage = newImageUrl
ChainBase(baseImage, newImageUrl) == newImageUrl

ProgressiveHistory_Append(prev, newLayers) ==
    IF Len(prev) = 0 THEN newLayers ELSE Append(prev, newLayers[Len(newLayers)])

\* setOutfitHistory([...newLayers]): the history is replaced, whatever it was
ProgressiveHistory(prev, newLayers) == newLayers

ReplayOp(outfit) ==
    [kind |-> "replay", stage |-> "wait", ids |-> outfit.garmentIds, k |-> 0,
     hist |-> outfitHistory, w |-> wardrobe,
     newLayers |-> <<>>, base |-> NoImage, img |-> NoImage, calls |-> <<>>]

ApplySavedOutfit(n) ==
    /\ MainScreen
    /\ savedOutfits.isArray
    /\ n \in 1..Len(savedOutfits.items)
    /\ IF isLoading THEN
            /\ UNCHANGED <<last, redo>>
            /\ UNCHANGED <<currentOutfitIndex, isLoading, error, currentPoseIndex, ops>>
       ELSE
            /\ Len(ops) < MaxOps
            /\ error' = FALSE
            /\ isLoading' = TRUE
            /\ currentOutfitIndex' = 0
            /\ currentPoseIndex' = 0
            /\ ops' = Append(ops, ReplayOp(savedOutfits.items[n]))
            /\ last' = "applyStart"
            /\ redo' = Observe("applyStart", NoGarment)
    /\ UNCHANGED <<modelImageUrl, outfitHistory, poseImages, wardrobe, savedOutfits, localStorage,
                   nSessions, callsLeft, nCustom, nSaved, crashed>>

\* The for loop of applyGarmentSequence from position j on, for the handler ops[i] whose
\* record is now o: it runs to the next await (urlToFile of the next id the wardrobe
\* holds; the other ids are passed over), or to the end, where handleApplySavedOutfit
\* clears the busy flag.
ReplayLoop(i, o, j, ev) ==
    LET k == NextResolvable(o.ids, j, o.w) IN
    IF k > Len(o.ids) THEN
        /\ isLoading' = FALSE
        /\ ops' = RemoveAt(ops, i)
        /\ last' = "replayDone"
        /\ redo' = Observe("replayDone", NoGarment)
    ELSE
        /\ ops' = ReplaceAt(ops, i, [o EXCEPT !.stage = "fetch", !.k = k])
        /\ last' = ev
        /\ redo' = Observe(ev, NoGarment)
        /\ UNCHANGED isLoading

\* return after setError: the sequence stops and the busy flag is cleared
ReplayAbort(i, o) ==
    /\ error' = TRUE
    /\ isLoading' = FALSE
    /\ ops' = RemoveAt(ops, i)
    /\ last' = "replayFail"
    /\ redo' = Observe("replayFail", NoGarment)

\* the 50 ms timer fired: applyGarmentSequence starts
ReplayStart(i) ==
    /\ ~crashed
    /\ i \in 1..Len(ops) /\ ops[i].kind = "replay" /\ ops[i].stage = "wait"
    /\ LET o == ops[i]
           baseImage == IF Len(o.hist) = 0 THEN NoImage
                        ELSE PoseGet(poseImages[o.hist[1].oid], DefaultPose)
       IN IF baseImage = NoImage THEN ReplayAbort(i, o)
          ELSE /\ ReplayLoop(i, [o EXCEPT !.newLayers = <<o.hist[1]>>, !.base = baseImage],
                             1, "replayBegin")
               /\ UNCHANGED error
    /\ UNCHANGED <<modelImageUrl, outfitHistory, poseImages, currentOutfitIndex,
                   currentPoseIndex, wardrobe, savedOutfits, localStorage,
                   nSessions, callsLeft, nCustom, nSaved, crashed>>

\* urlToFile resolved: generateVirtualTryOnImage(baseImage, garmentFile) is called
ReplayFetched(i) ==
    /\ ~crashed
    /\ i \in 1..Len(ops) /\ ops[i].kind = "replay" /\ ops[i].stage = "fetch"
    /\ callsLeft > 0
    /\ callsLeft' = callsLeft - 1
    /\ LET o == ops[i]
           img == NewImage
           o2 == [o EXCEPT !.stage = "gen", !.img = img,
                           !.calls = Append(@, [garment |-> o.ids[o.k], base |-> o.base,
                                                img |-> img])]
       IN /\ ops' = ReplaceAt(ops, i, o2)
          /\ last' = "replayCall"
          /\ redo' = Observe("replayCall", NoGarment)
    /\ UNCHANGED <<modelImageUrl, outfitHistory, poseImages, currentOutfitIndex, isLoading,
                   error, currentPoseIndex, wardrobe, savedOutfits, localStorage,
                   nSessions, nCustom, nSaved, crashed>>

\* urlToFile or generateVirtualTryOnImage rejected
ReplayFailed(i) ==
    /\ ~crashed
    /\ i \in 1..Len(ops) /\ ops[i].kind = "replay" /\ ops[i].stage \in {"fetch", "gen"}
    /\ ReplayAbort(i, ops[i])
    /\ UNCHANGED <<modelImageUrl, outfitHistory, poseImages, currentOutfitIndex,
                   currentPoseIndex, wardrobe, savedOutfits, localStorage,
                   nSessions, callsLeft, nCustom, nSaved, crashed>>

\* generateVirtualTryOnImage resolved: the layer is pushed and the history replaced
ReplayGenerated(i) ==
    /\ ~crashed
    /\ i \in 1..Len(ops) /\ ops[i].kind = "replay" /\ ops[i].stage = "gen"
    /\ LET o == ops[i]
           layers == Append(o.newLayers, Layer(o.ids[o.k], o.img))
       IN /\ poseImages' = [poseImages EXCEPT ![o.img] = <<[pose |-> DefaultPose, img |-> o.img]>>]
          /\ outfitHistory' = ProgressiveHistory(outfitHistory, layers)
          /\ currentOutfitIndex' = Len(layers) - 1
          /\ ReplayLoop(i, [o EXCEPT !.newLayers = layers, !.base = ChainBase(o.base, o.img),
                                  !.img = NoImage],
                        o.k + 1, "replayCommit")
    /\ UNCHANGED <<modelImageUrl, error, currentPoseIndex, wardrobe, savedOutfits, localStorage,
                   nSessions, callsLeft, nCustom, nSaved, crashed>>

Next ==
    \/ ModelFinalized
    \/ StartOver
    \/ \E g \in 1..CustomId(MaxCustom) : GarmentClick(g)
    \/ \E i \in 1..MaxOps : ClickFetched(i)
    \/ \E i \in 1..MaxOps : ClickFetchFailed(i)
    \/ Upload
    \/ \E i \in 1..MaxOps : AddSucceeded(i)
    \/ \E i \in 1..MaxOps : AddFailed(i)
    \/ RemoveLastGarment
    \/ \E p \in Poses : PoseSelect(p)
    \/ \E i \in 1..MaxOps : PoseSucceeded(i)
    \/ \E i \in 1..MaxOps : PoseFailed(i)
    \/ \E accepted \in BOOLEAN : SaveOutfit(accepted)
    \/ \E n \in 1..(MaxSaved + MaxStored) : ApplySavedOutfit(n)
    \/ \E i \in 1..MaxOps : ReplayStart(i)
    \/ \E i \in 1..MaxOps : ReplayFetched(i)
    \/ \E i \in 1..MaxOps : ReplayFailed(i)
    \/ \E i \in 1..MaxOps : ReplayGenerated(i)

Spec == Init /\ [][Next]_vars

\* ---- the pose scenarios: garments are added by upload and by replay of the stored
\* outfits only, and the run may issue MaxPoseCalls generation calls ----
PoseInit ==
    /\ modelImageUrl = NoImage
    /\ outfitHistory = <<>>
    /\ poseImages = [i \in 1..MaxImage |-> <<>>]
    /\ currentOutfitIndex = 0
    /\ isLoading = FALSE
    /\ error = FALSE
    /\ currentPoseIndex = 0
    /\ wardrobe = defaultWardrobe
    /\ savedOutfits = JSArray(StoredOutfits)
    /\ localStorage = JSONstringify(JSArray(StoredOutfits))
    /\ ops = <<>>
    /\ callsLeft = MaxPoseCalls
    /\ nSessions = 0 /\ nCustom = 0 /\ nSaved = 0
    /\ crashed = FALSE
    /\ last = "init"
    /\ redo = NoRedo

PoseNext ==
    \/ ModelFinalized
    \/ StartOver
    \/ Upload
    \/ \E i \in 1..MaxOps : AddSucceeded(i)
    \/ \E i \in 1..MaxOps : AddFailed(i)
    \/ RemoveLastGarment
    \/ \E p \in Poses : PoseSelect(p)
    \/ \E i \in 1..MaxOps : PoseSucceeded(i)
    \/ \E i \in 1..MaxOps : PoseFailed(i)
    \/ \E n \in 1..MaxStored : ApplySavedOutfit(n)
    \/ \E i \in 1..MaxOps : ReplayStart(i)
    \/ \E i \in 1..MaxOps : ReplayFetched(i)
    \/ \E i \in 1..MaxOps : ReplayFailed(i)
    \/ \E i \in 1..MaxOps : ReplayGenerated(i)

PoseSpec == PoseInit /\ [][PoseNext]_vars

\* ---- the pose scenarios under the assumption that every generation call, every image
\* fetch and the timer of handleApplySavedOutfit eventually completes or fails ----
Completes ==
    \A i \in 1..MaxOps :
        /\ WF_vars(AddSucceeded(i) \/ AddFailed(i))
        /\ WF_vars(PoseSucceeded(i) \/ PoseFailed(i))
        /\ WF_vars(ReplayStart(i))
        /\ WF_vars(ReplayFetched(i) \/ ReplayGenerated(i) \/ ReplayFailed(i))

LiveSpec == PoseInit /\ [][PoseNext]_vars /\ Completes

\* ---- the saved outfits scenarios: the item found in localStorage at startup is any of
\* RawStores, saved outfits are deleted, and garments are added by upload and by replay ----
RawStores ==
    {NoItem, Unparseable, JSONstringify(NotAnArray), JSONstringify(JSArray(<<>>)),
     JSONstringify(JSArray(StoredOutfits))}

\* what the item found at startup was
LoadKind(text) ==
    IF text.t = "null" THEN "loadNone"
    ELSE IF text.t = "garbage" THEN "loadUnparseable"
    ELSE IF text.t = "object" THEN "loadNotArray"
    ELSE "loadArray"

\* the state after the first render and its effects: the load effect, then the persist
\* effect of each render
StoreInit ==
    /\ modelImageUrl = NoImage
    /\ outfitHistory = <<>>
    /\ poseImages = [i \in 1..MaxImage |-> <<>>]
    /\ currentOutfitIndex = 0
    /\ isLoading = FALSE
    /\ error = FALSE
    /\ currentPoseIndex = 0
    /\ wardrobe = defaultWardrobe
    /\ \E text \in RawStores :
          /\ savedOutfits = LoadAll(text)
          /\ localStorage = Persist(LoadAll(text), TRUE, text)
          /\ last = LoadKind(text)
    /\ ops = <<>>
    /\ callsLeft = MaxCalls
    /\ nSessions = 0 /\ nCustom = 0 /\ nSaved = 0
    /\ crashed = FALSE
    /\ redo = NoRedo

StoreIds == {-2, -1} \cup 1..MaxSaved

StoreNext ==
    \/ ModelFinalized
    \/ StartOver
    \/ Upload
    \/ \E i \in 1..MaxOps : AddSucceeded(i)
    \/ \E i \in 1..MaxOps : AddFailed(i)
    \/ RemoveLastGarment
    \/ \E accepted \in BOOLEAN : SaveOutfit(accepted)
    \/ \E id \in StoreIds, accepted \in BOOLEAN : DeleteSavedOutfit(id, accepted)
    \/ \E n \in 1..(MaxSaved + MaxStored) : ApplySavedOutfit(n)
    \/ \E i \in 1..MaxOps : ReplayStart(i)
    \/ \E i \in 1..MaxOps : ReplayFetched(i)
    \/ \E i \in 1..MaxOps : ReplayFailed(i)
    \/ \E i \in 1..MaxOps : ReplayGenerated(i)

StoreSpec == StoreInit /\ [][StoreNext]_vars

\* ---- derived views used by the properties ----
\* the generation calls that are outstanding
Outstanding ==
    {i \in 1..Len(ops) : \/ ops[i].kind \in {"add", "pose"}
                         \/ ops[i].kind = "replay" /\ ops[i].stage = "gen"}

\* the steps in which a mutating user operation acted on the engine
UserMutation == {"addRedo", "addIssue", "remove", "poseHit", "poseIssue", "applyStart"}

\* C1 (root invariant): whenever the history has a layer at position 0, that layer
\* has no garment and its pose cache holds the default pose.
C1_RootInvariant ==
    Len(outfitHistory) > 0 =>
        /\ outfitHistory[1].garment = NoGarment
        /\ DefaultPose \in PoseKeys(poseImages[outfitHistory[1].oid])

\* C2 (history index invariant): once a model is set, the history has a layer at
\* position 0 and the current position is an index of the history.
C2_IndexInvariant ==
    modelImageUrl # NoImage =>
        /\ Len(outfitHistory) >= 1
        /\ 0 <= currentOutfitIndex /\ currentOutfitIndex < Len(outfitHistory)

\* C3 (single-flight): at most one generation call is outstanding.
C3_SingleFlight == Cardinality(Outstanding) <= 1

\* C4 (busy gating): a mutating user operation that runs while the busy flag is set
\* leaves the history, the pose caches, the position and the active pose unchanged.
C4_BusyGating ==
    [][(isLoading /\ last' \in UserMutation) =>
          UNCHANGED <<outfitHistory, poseImages, currentOutfitIndex, currentPoseIndex>>]_vars

\* C5 (failing AddGarment is all-or-nothing): when the generation call of an
\* AddGarment fails, the history and the position are what they were when the call
\* was issued.
C5_AddFailureAtomic ==
    [][\A i \in 1..Len(ops) :
          (AddFailed(i) /\ modelImageUrl = ops[i].m0) =>
              /\ outfitHistory' = ops[i].h0
              /\ currentOutfitIndex' = ops[i].i0]_vars

\* C6 (redo idempotence): after a successful AddGarment(G), then RemoveLastGarment,
\* then AddGarment(G), the second AddGarment is a redo hit that issues no generation
\* call, and history, pose caches, position and active pose are those that the first
\* AddGarment(G) left.
C6_RedoIdempotent ==
    redo.stage = 3 =>
        /\ last = "addRedo"
        /\ callsLeft = redo.calls
        /\ outfitHistory = redo.hist
        /\ poseImages = redo.cache
        /\ currentOutfitIndex = redo.idx
        /\ currentPoseIndex = redo.pose

\* C7 (branch overwrite): an AddGarment(H) issued at a position i below the top of
\* the history, with H different from the garment of layer i+1, leaves on success a
\* history of length i+2: the former layers 0..i followed by the layer of H.
C7_BranchOverwrite ==
    [][\A i \in 1..Len(ops) :
          (/\ AddSucceeded(i)
           /\ modelImageUrl = ops[i].m0
           /\ ops[i].i0 + 1 < Len(ops[i].h0)
           /\ ops[i].h0[ops[i].i0 + 2].garment # ops[i].garment) =>
              /\ Len(outfitHistory') = ops[i].i0 + 2
              /\ SubSeq(outfitHistory', 1, ops[i].i0 + 1) = SubSeq(ops[i].h0, 1, ops[i].i0 + 1)
              /\ outfitHistory'[ops[i].i0 + 2].garment = ops[i].garment]_vars

\* C8 (pose cache hit): SelectPose(p) while the busy flag is clear and p is a key of
\* the current layer's pose cache makes p the active pose, issues no generation call,
\* sets neither the busy flag nor an error and leaves history, caches and position
\* unchanged.
C8_PoseCacheHit ==
    [][\A p \in Poses :
          (/\ ~isLoading
           /\ HasLayer(outfitHistory, currentOutfitIndex)
           /\ p \in PoseKeys(poseImages[outfitHistory[currentOutfitIndex + 1].oid])
           /\ PoseSelect(p)) =>
              /\ currentPoseIndex' = p
              /\ callsLeft' = callsLeft
              /\ ~isLoading'
              /\ error' = error
              /\ UNCHANGED <<outfitHistory, poseImages, currentOutfitIndex, ops>>]_vars

C8_Witness == last = "poseHit" /\ currentPoseIndex # DefaultPose

\* the positions of the ids of a replay that its wardrobe does not hold
Unresolved(o) == {j \in 1..Len(o.ids) : o.ids[j] \notin Range(o.w)}

\* C9 (replay chaining): a replay of ids that are all resolvable, started on a
\* root-only history, whose calls all succeed, ends with the history [root, layer of
\* ids[1], ..., layer of ids[n]] at position n; the first call got the root's
\* default-pose image as base and call j the image that call j-1 returned.
C9_ReplayChaining ==
    [][\A i \in 1..Len(ops) :
          (/\ ReplayGenerated(i)
           /\ last' = "replayDone"
           /\ Len(ops[i].hist) = 1
           /\ Unresolved(ops[i]) = {}) =>
              LET o == ops[i]
                  n == Len(o.ids)
              IN /\ Len(o.calls) = n
                 /\ Len(outfitHistory') = n + 1
                 /\ outfitHistory'[1] = o.hist[1]
                 /\ currentOutfitIndex' = n
                 /\ \A j \in 1..n :
                       /\ outfitHistory'[j + 1] = Layer(o.ids[j], o.calls[j].img)
                       /\ o.calls[j].garment = o.ids[j]
                       /\ o.calls[j].base =
                             IF j = 1 THEN PoseGet(poseImages[o.hist[1].oid], DefaultPose)
                             ELSE o.calls[j - 1].img]_vars

C9_Witness ==
    /\ last = "replayDone"
    /\ Len(outfitHistory) = 3
    /\ currentOutfitIndex = 2
    /\ outfitHistory[2].garment = 1 /\ outfitHistory[3].garment = 2

CalledIds(o) == [j \in 1..Len(o.calls) |-> o.calls[j].garment]
Resolvable(o) == SelectSeq(o.ids, LAMBDA g : g \in Range(o.w))

C11_ReplayStopsOnFailure ==
    [][\A i \in 1..Len(ops) :
          (ReplayFailed(i) /\ ops[i].stage = "gen") =>
              LET o == ops[i]
                  n == Len(o.newLayers)
              IN /\ error'
                 /\ ops' = RemoveAt(ops, i)
                 /\ callsLeft' = callsLeft
                 /\ n > 1 => /\ Len(outfitHistory') >= n
                             /\ SubSeq(outfitHistory', 2, n) = Tail(o.newLayers)
                             /\ currentOutfitIndex' = n - 1]_vars

\* C12 (representative base for pose changes): a SelectPose that misses the cache
\* issues one generation call, and its base is the first-inserted entry of the current
\* layer's pose cache, which is the image the layer was created with, whatever poses
\* the layer has cached and whichever of them is displayed.
C12_RepresentativeBase ==
    [][\A p \in Poses :
          (PoseSelect(p) /\ callsLeft' # callsLeft) =>
              LET o == ops'[Len(ops')]
                  layer == outfitHistory[currentOutfitIndex + 1]
              IN /\ callsLeft' = callsLeft - 1
                 /\ Len(ops') = Len(ops) + 1
                 /\ o.kind = "pose" /\ o.pose = p
                 /\ o.base = poseImages[layer.oid][1].img
                 /\ o.base = layer.oid]_vars

\* a pose call is outstanding whose base is not the image that was displayed
C12_Witness ==
    \E i \in 1..Len(ops) :
        /\ ops[i].kind = "pose"
        /\ ops[i].shown # ops[i].base
        /\ ops[i].shown # NoImage

\* C13 (position after a successful new edit): when the generation call of an
\* AddGarment issued at position i succeeds, the position is i + 1, it is the last
\* index of the history, and the layer there is the new layer, whatever the user did
\* while the call was outstanding.
C13_AddLandsOnNewLayer ==
    [][\A i \in 1..Len(ops) :
          (AddSucceeded(i) /\ modelImageUrl = ops[i].m0) =>
              /\ currentOutfitIndex' = ops[i].i0 + 1
              /\ currentOutfitIndex' = Len(outfitHistory') - 1
              /\ outfitHistory'[Len(outfitHistory')] = Layer(ops[i].garment, ops[i].img)
              /\ HasLayer(outfitHistory', currentOutfitIndex')
              /\ outfitHistory'[currentOutfitIndex' + 1] = Layer(ops[i].garment, ops[i].img)]_vars

\* C14 (SelectPose failure rollback): a SelectPose that misses the cache makes the
\* requested pose the active pose in the step that issues the call; when the call
\* fails, the active pose is the one before the SelectPose, the error is surfaced, and
\* history, position and the pose cache of the layer that was current are what they
\* were when SelectPose was called, without an entry for the requested pose.
C14_PoseFailureRollback ==
    [][/\ \A p \in Poses :
             (PoseSelect(p) /\ callsLeft' # callsLeft) => currentPoseIndex' = p
       /\ \A i \in 1..Len(ops) :
             PoseFailed(i) =>
                 LET o == ops[i] IN
                 /\ currentPoseIndex' = o.prev
                 /\ error'
                 /\ outfitHistory' = o.h0
                 /\ currentOutfitIndex' = o.idx
                 /\ poseImages'[o.oid] = o.c0
                 /\ o.pose \notin PoseKeys(poseImages'[o.oid])]_vars

\* C15 (the pose image goes to the layer that was current): when the generation call
\* of a SelectPose succeeds, its image is inserted under the requested pose into the
\* pose cache of the layer that was current when SelectPose was called, and no other
\* pose cache changes.
C15_PoseLandsOnItsLayer ==
    [][\A i \in 1..Len(ops) :
          PoseSucceeded(i) =>
              /\ ~crashed'
              /\ poseImages' = [poseImages EXCEPT ![ops[i].oid] =
                                   PoseSet(@, ops[i].pose, ops[i].img)]]_vars

\* C16 as claimed (root pose cache size): the pose cache of the layer at position 0
\* has exactly one entry, the model's base image under the default pose.
C16_RootCacheSingle ==
    Len(outfitHistory) > 0 =>
        poseImages[outfitHistory[1].oid] = <<[pose |-> DefaultPose, img |-> modelImageUrl]>>

\* C16 as amended (root pose cache): the first entry of the root layer's pose cache is
\* the default pose with the base image the layer was created with, no pose has two
\* entries, and handleModelFinalized creates the root with that entry alone; SelectPose
\* at position 0 adds entries after it.
C16_RootCacheFirstEntry ==
    [][/\ ModelFinalized =>
             poseImages'[outfitHistory'[1].oid] =
                 <<[pose |-> DefaultPose, img |-> modelImageUrl']>>
       /\ (Len(outfitHistory') > 0 /\ outfitHistory'[1].garment = NoGarment) =>
             LET cache == poseImages'[outfitHistory'[1].oid] IN
             /\ Len(cache) >= 1
             /\ cache[1] = [pose |-> DefaultPose, img |-> outfitHistory'[1].oid]
             /\ outfitHistory'[1].oid \in 1..MaxSessions
             /\ Cardinality(PoseKeys(cache)) = Len(cache)]_vars

\* the root is the current layer and holds a second pose
C16_Witness ==
    /\ Len(outfitHistory) > 0
    /\ outfitHistory[1].garment = NoGarment
    /\ currentOutfitIndex = 0
    /\ Len(poseImages[outfitHistory[1].oid]) > 1
    /\ last = "poseOk"

\* the steps in which an AddGarment or a RemoveLastGarment changed the current layer
LayerChange == {"addRedo", "addOk", "remove"}

\* C17 (active pose reset): after a step in which AddGarment or RemoveLastGarment
\* changed the current layer, the active pose is the default pose as soon as no
\* operation is outstanding: at once when none was, and after the completion of the
\* one that was.
C17_PoseResetOnLayerChange ==
    [][/\ (last' \in LayerChange /\ ops' = <<>>) => currentPoseIndex' = DefaultPose
       /\ (last \in LayerChange /\ Len(ops) = 1 /\ ops' = <<>>) =>
             currentPoseIndex' = DefaultPose]_vars

\* the layers that a replay built, from the calls it issued
BuiltLayers(o) == [j \in 1..Len(o.calls) |-> Layer(o.calls[j].garment, o.calls[j].img)]

\* C18 (progressive replay commit): the step in which the generation call of replay
\* step k succeeds leaves the history [root, layer 1, ..., layer k] with the position
\* at k and issues no call (the call of step k+1 is a later step); none of the layers
\* that followed the root before the replay is in the history any more.
C18_ProgressiveCommit ==
    [][\A i \in 1..Len(ops) :
          ReplayGenerated(i) =>
              LET o == ops[i]
                  k == Len(o.calls)
              IN /\ outfitHistory' = <<o.hist[1]>> \o BuiltLayers(o)
                 /\ Len(outfitHistory') = k + 1
                 /\ currentOutfitIndex' = k
                 /\ callsLeft' = callsLeft
                 /\ \A j \in 2..Len(o.hist) : o.hist[j] \notin Range(outfitHistory')
                 /\ \A j \in 2..Len(outfitHistory) :
                       outfitHistory[j] \in Range(outfitHistory') =>
                           outfitHistory[j] \in Range(BuiltLayers(o))]_vars

\* step 1 of a replay that started on a history with a garment layer is committed
\* and step 2 is still to come
C18_Witness ==
    /\ last = "replayCommit"
    /\ \E i \in 1..Len(ops) :
          /\ ops[i].kind = "replay" /\ ops[i].stage = "fetch"
          /\ Len(ops[i].calls) = 1
          /\ Len(ops[i].hist) > 1
          /\ outfitHistory = <<ops[i].hist[1]>> \o BuiltLayers(ops[i])
    /\ currentOutfitIndex = 1

\* C19 (RemoveLastGarment): at a position i > 0 it sets the position to i - 1 and the
\* active pose to the default and changes nothing else: the history and every pose
\* cache stay; at position 0 it changes nothing.
C19_RemoveFrame ==
    [][RemoveLastGarment =>
          /\ UNCHANGED <<modelImageUrl, outfitHistory, poseImages, isLoading, error,
                         wardrobe, savedOutfits, localStorage, ops, callsLeft, crashed>>
          /\ IF currentOutfitIndex > 0
             THEN /\ currentOutfitIndex' = currentOutfitIndex - 1
                  /\ currentPoseIndex' = DefaultPose
             ELSE UNCHANGED <<currentOutfitIndex, currentPoseIndex>>]_vars

\* RemoveLastGarment acted and the layer it left is still in the history
C19_Witness ==
    /\ last = "remove"
    /\ currentOutfitIndex + 1 < Len(outfitHistory)
    /\ outfitHistory[currentOutfitIndex + 2].garment # NoGarment
    /\ currentPoseIndex = DefaultPose

\* C20 (pose cache monotonicity): a garment layer is created with the default pose as
\* its only pose cache entry, and in every step each entry of the pose cache of a
\* garment layer that stays in the history stays as it is.
C20_PoseCacheMonotonic ==
    [][/\ \A i \in 1..Len(ops) :
             (AddSucceeded(i) \/ ReplayGenerated(i)) =>
                 poseImages'[ops[i].img] = <<[pose |-> DefaultPose, img |-> ops[i].img]>>
       /\ \A k \in 1..Len(outfitHistory) :
             LET layer == outfitHistory[k] IN
             (layer.garment # NoGarment /\ layer \in Range(outfitHistory')) =>
                 \A e \in Range(poseImages[layer.oid]) :
                     e \in Range(poseImages'[layer.oid])]_vars

\* C21 as claimed (saved outfit index persistence): after every Save and every Delete
\* the item of localStorage is the text of the whole in-memory index.
C21_PersistAlways ==
    [][(/\ \/ \E accepted \in BOOLEAN : SaveOutfit(accepted)
           \/ \E id \in StoreIds, accepted \in BOOLEAN : DeleteSavedOutfit(id, accepted)
        /\ savedOutfits' # savedOutfits) =>
            JSONparse(localStorage') = [ok |-> TRUE, value |-> savedOutfits']]_vars

\* C21 as amended (persistence is best effort): Save puts the new outfit at the head
\* of the index and Delete(id) removes the outfits with that id; when localStorage
\* accepts the write, its item is then the text of the whole in-memory index; when
\* it rejects the write, the item stays what it was.
C21_PersistWhenAccepted ==
    [][/\ \A accepted \in BOOLEAN :
             (SaveOutfit(accepted) /\ savedOutfits' # savedOutfits) =>
                 /\ savedOutfits'.isArray
                 /\ Head(savedOutfits'.items).garmentIds = activeGarmentIds
                 /\ Tail(savedOutfits'.items) = savedOutfits.items
                 /\ \A k \in 1..Len(savedOutfits.items) :
                       savedOutfits.items[k].id # Head(savedOutfits'.items).id
                 /\ IF accepted
                    THEN JSONparse(localStorage') = [ok |-> TRUE, value |-> savedOutfits']
                    ELSE localStorage' = localStorage
       /\ \A id \in StoreIds, accepted \in BOOLEAN :
             DeleteSavedOutfit(id, accepted) =>
                 /\ savedOutfits'.isArray
                 /\ savedOutfits'.items = SelectSeq(savedOutfits.items, LAMBDA o : o.id # id)
                 /\ Len(savedOutfits'.items) = Len(savedOutfits.items) - 1
                 /\ IF accepted
                    THEN JSONparse(localStorage') = [ok |-> TRUE, value |-> savedOutfits']
                    ELSE localStorage' = localStorage]_vars

\* an outfit was saved and a stored one deleted, and the item is the text of the index
C21_Witness ==
    /\ last = "delete"
    /\ savedOutfits.isArray
    /\ Len(savedOutfits.items) = MaxStored
    /\ savedOutfits.items[1].id = 1
    /\ savedOutfits.items[1].garmentIds # <<>>
    /\ JSONparse(localStorage) = [ok |-> TRUE, value |-> savedOutfits]

\* C22 (LoadAll tolerance): when the item found at startup is unparseable, or is
\* the text of something that is not an array of saved outfits, the in-memory index
\* is the empty array and nothing has failed.
C22_LoadTolerance ==
    last \in {"loadUnparseable", "loadNotArray"} =>
        /\ savedOutfits = JSArray(<<>>)
        /\ ~crashed
        /\ ~error

\* C23 (displayed pose consistency): whenever no operation is outstanding and the
\* busy flag is clear, the active pose is a key of the pose cache of the current
\* layer, so that the displayed image is that entry and not the first-entry fallback.
C23_DisplayedPoseCached ==
    (ops = <<>> /\ ~isLoading /\ ~crashed /\ HasLayer(outfitHistory, currentOutfitIndex)) =>
        /\ currentPoseIndex \in PoseKeys(poseImages[outfitHistory[currentOutfitIndex + 1].oid])
        /\ displayImageUrl =
              PoseGet(poseImages[outfitHistory[currentOutfitIndex + 1].oid], currentPoseIndex)

\* the engine accepts new operations: the busy flag is clear and the tree is mounted
Accepting == ~isLoading /\ ~crashed

\* C24 (busy flag release): when every call, fetch and timer eventually completes or
\* fails, a busy flag that is set is eventually cleared, and the engine is again and
\* again in a state in which it accepts new operations.
C24_BusyRelease == (isLoading ~> ~isLoading) /\ []<>Accepting

\* a replay completes: its epilogue clears the busy flag with no error surfaced
ReplayCompletes(i) == (ReplayStart(i) \/ ReplayGenerated(i)) /\ last' = "replayDone"

====
